---- MODULE Spec2Model ----
(***************************************************************************)
(* Motor test sequencer of the dyi-drone repository                        *)
(* (src/1-circuit-test/1-circuit-test.ino).                                *)
(*                                                                         *)
(* The sketch is modelled three times over the same operators:             *)
(*   Spec      one action per handler (setup, loop), as the Arduino core   *)
(*             runs them: setup() once, then loop() forever;               *)
(*   SpecStmt  one action per statement of the sketch, for the properties  *)
(*             that speak about single writes, the delay and the frame of  *)
(*             each statement;                                             *)
(*   SpecApply runTest(test) as a function of its argument and of the      *)
(*             outputs it finds, inputs drawn in the initial state.        *)
(* Further specifications over the same variables:                         *)
(*   FairSpec   Spec with the scheduling of the Arduino core's main();     *)
(*   SpecConfig SpecStmt for builds with other speed constants;            *)
(*   SpecSkills the ensure-skills.sh / ensure-skills.ps1 scripts;          *)
(*   SpecRight  the right-motors test sketch, one action per handler.      *)
(* The sequencer as specified (initialize, tick, suspend) runs beside the  *)
(* sketch in specIndex and specOut.                                        *)
(***************************************************************************)
EXTENDS Integers, Sequences, FiniteSets, TLC

(* ---- constants of the sketch ------------------------------------------ *)
FRONT_RIGHT_PIN == 9
BACK_RIGHT_PIN == 10
FRONT_LEFT_PIN == 5
BACK_LEFT_PIN == 6

TEST_INTERVAL == 2500

SPEED_LOW == 100
SPEED_MEDIUM == 180
SPEED_HIGH == 255

TOTAL_TESTS == 12

(* width of the AVR int that holds currentTest *)
INT_BITS == 16

(* ---- bounds of the model ---------------------------------------------- *)
(* completed loop() iterations that are counted; the counter saturates     *)
MaxTicks == 26
(* consecutive calls of runTest(test) made under SpecApply                 *)
MaxCalls == 2
(* how far outside 0..TOTAL_TESTS-1 the arguments of SpecApply reach       *)
ArgSlack == 1

(* consecutive runs of ensure-skills                                       *)
MaxRuns == 2
(* how far outside 0..255 the speeds passed to setAllMotors reach           *)
SpeedSlack == 1

(* values a pin may hold before the sketch has written it *)
PriorVals == {0, SPEED_LOW, SPEED_HIGH}

Pins == {FRONT_RIGHT_PIN, BACK_RIGHT_PIN, FRONT_LEFT_PIN, BACK_LEFT_PIN}

TestArgs == (0 - ArgSlack) .. (TOTAL_TESTS - 1 + ArgSlack)

(* setAllMotors(int speed): the speeds the sketch uses and the nearest     *)
(* ints on either side of the 8-bit duty range                             *)
SpeedArgs ==
  {0, SPEED_LOW, SPEED_MEDIUM, SPEED_HIGH}
    \cup ((0 - SpeedSlack) .. (0 - 1))
    \cup ((SPEED_HIGH + 1) .. (SPEED_HIGH + SpeedSlack))

(* length of the history of applied step indices that is kept *)
WindowLen == TOTAL_TESTS + 1

VARIABLES
  out,          \* duty cycle last written to (or found on) each pin
  mode,         \* pinMode of each pin
  currentTest,  \* the global step index
  pc,           \* position of the single thread of control
  pending,      \* statements of the running function still to execute
  test,         \* <<argument>> of the current / latest runTest call
  before,       \* the outputs when the current operation began
  lastWrite,    \* <<pin, value>> of the latest analogWrite, <<>> if none
  ticks,        \* completed loop() iterations (saturates at MaxTicks)
  window,       \* indices applied by the latest WindowLen iterations
  calls,        \* runTest calls made under SpecApply
  speeds,       \* the values of SPEED_LOW / SPEED_MEDIUM / SPEED_HIGH built in
  waited,       \* ms of delay() since the latest step began to be applied
  specIndex,    \* index of the specified sequencer run beside the sketch
  specOut,      \* outputs of the specified sequencer, in channel order
  shell,        \* which ensure-skills script runs: "sh" or "ps1"
  srcExists,    \* support/skills is a directory
  hasMd,        \* per skill directory: it holds a SKILL.md
  base,         \* per target base directory: "absent", "dir" or "file"
  entry,        \* per <<target, skill>>: what is found at <target>/<skill>
  created,      \* counters of the running script
  skipped,
  warnings,
  run,          \* number of the script run in progress or last finished
  cursor,       \* index of the next <<skill, target>> pair of the run
  status,       \* "idle", "running", "done" or "aborted"
  linked        \* links created by all runs so far

sketchVars == <<out, mode, currentTest, pc, pending, test, before, lastWrite,
                ticks, window, calls, speeds, waited, specIndex, specOut>>

scriptVars == <<shell, srcExists, hasMd, base, entry, created, skipped,
                warnings, run, cursor, status, linked>>

(* the specified sequencer that runs beside the sketch *)
specVars == <<specIndex, specOut>>

vars == <<sketchVars, scriptVars>>

(* ---- statements --------------------------------------------------------*)
PinModeOp(pin) == [op |-> "pinMode", pin |-> pin, val |-> 0]

WriteOp(pin, val) == [op |-> "analogWrite", pin |-> pin, val |-> val]

(* the outputs in channel order FR, BR, FL, BL *)
Outputs == <<out[FRONT_RIGHT_PIN], out[BACK_RIGHT_PIN],
             out[FRONT_LEFT_PIN], out[BACK_LEFT_PIN]>>

(* effect of one statement on the pin state s = [out, mode, lastWrite] *)
ExecBad(s, o) ==
  IF o.op = "pinMode"
  THEN [s EXCEPT !.mode[o.pin] = "OUTPUT"]
  ELSE [s EXCEPT !.out[o.pin] = (s.out[o.pin] + o.val) % 256,
                 !.lastWrite = <<o.pin, o.val>>]

ExecShared(s, o) ==
  IF o.op = "pinMode"
  THEN [s EXCEPT !.mode[o.pin] = "OUTPUT"]
  ELSE [s EXCEPT !.out = [p \in DOMAIN s.out |->
                            IF p = o.pin
                               \/ {p, o.pin} = {FRONT_RIGHT_PIN, BACK_RIGHT_PIN}
                            THEN o.val ELSE s.out[p]],
                 !.lastWrite = <<o.pin, o.val>>]

ExecRelative(s, o) ==
  IF o.op = "pinMode"
  THEN [s EXCEPT !.mode[o.pin] = "OUTPUT"]
  ELSE [s EXCEPT !.out[o.pin] = (s.out[o.pin] + o.val) % 256,
                 !.lastWrite = <<o.pin, (s.out[o.pin] + o.val) % 256>>]

Exec(s, o) ==
  IF o.op = "pinMode"
  THEN [s EXCEPT !.mode[o.pin] = "OUTPUT"]
  ELSE [s EXCEPT !.out[o.pin] = o.val,
                 !.lastWrite = <<o.pin, o.val>>]

RECURSIVE Run(_, _)
Run(s, ops) ==
  IF ops = << >> THEN s ELSE Run(Exec(s, Head(ops)), Tail(ops))

PinState == [out |-> out, mode |-> mode, lastWrite |-> lastWrite]

(* ---- functions of the sketch, as the statements they execute ---------- *)
(* the three speed constants as the sketch is built (lines 22-24) *)
BuiltSpeeds ==
  [low |-> SPEED_LOW, medium |-> SPEED_MEDIUM, high |-> SPEED_HIGH]

setAllMotors(speed) ==
  << WriteOp(FRONT_RIGHT_PIN, speed),
     WriteOp(BACK_RIGHT_PIN, speed),
     WriteOp(FRONT_LEFT_PIN, speed),
     WriteOp(BACK_LEFT_PIN, speed) >>

setupBodyNoOff ==
  << PinModeOp(FRONT_RIGHT_PIN),
     PinModeOp(BACK_RIGHT_PIN),
     PinModeOp(FRONT_LEFT_PIN),
     PinModeOp(BACK_LEFT_PIN) >>

setupBody ==
  << PinModeOp(FRONT_RIGHT_PIN),
     PinModeOp(BACK_RIGHT_PIN),
     PinModeOp(FRONT_LEFT_PIN),
     PinModeOp(BACK_LEFT_PIN) >> \o setAllMotors(0)

runTestSwapped(t) ==
  CASE t = 0 -> setAllMotors(0)
    [] t = 1 -> setAllMotors(0) \o <<WriteOp(FRONT_RIGHT_PIN, speeds.medium)>>
    [] t = 2 -> setAllMotors(0) \o <<WriteOp(BACK_RIGHT_PIN, speeds.medium)>>
    [] t = 3 -> setAllMotors(0) \o <<WriteOp(FRONT_LEFT_PIN, speeds.medium)>>
    [] t = 4 -> setAllMotors(0) \o <<WriteOp(BACK_LEFT_PIN, speeds.medium)>>
    [] t = 5 -> setAllMotors(0) \o <<WriteOp(FRONT_RIGHT_PIN, speeds.medium),
                                     WriteOp(BACK_RIGHT_PIN, speeds.medium)>>
    [] t = 6 -> setAllMotors(0) \o <<WriteOp(FRONT_LEFT_PIN, speeds.medium),
                                     WriteOp(BACK_LEFT_PIN, speeds.medium)>>
    [] t = 7 -> setAllMotors(0) \o <<WriteOp(FRONT_RIGHT_PIN, speeds.medium),
                                     WriteOp(BACK_LEFT_PIN, speeds.medium)>>
    [] t = 8 -> setAllMotors(0) \o <<WriteOp(BACK_RIGHT_PIN, speeds.medium),
                                     WriteOp(BACK_LEFT_PIN, speeds.medium)>>
    [] t = 9 -> setAllMotors(speeds.low)
    [] t = 10 -> setAllMotors(speeds.medium)
    [] t = 11 -> setAllMotors(speeds.high)
    [] OTHER -> << >>

runTestOverdrive(t) ==
  CASE t = 0 -> setAllMotors(0)
    [] t = 1 -> setAllMotors(0) \o <<WriteOp(FRONT_RIGHT_PIN, speeds.medium)>>
    [] t = 2 -> setAllMotors(0) \o <<WriteOp(BACK_RIGHT_PIN, speeds.medium)>>
    [] t = 3 -> setAllMotors(0) \o <<WriteOp(FRONT_LEFT_PIN, speeds.medium)>>
    [] t = 4 -> setAllMotors(0) \o <<WriteOp(BACK_LEFT_PIN, speeds.medium)>>
    [] t = 5 -> setAllMotors(0) \o <<WriteOp(FRONT_RIGHT_PIN, speeds.medium),
                                     WriteOp(BACK_RIGHT_PIN, speeds.medium)>>
    [] t = 6 -> setAllMotors(0) \o <<WriteOp(FRONT_LEFT_PIN, speeds.medium),
                                     WriteOp(BACK_LEFT_PIN, speeds.medium)>>
    [] t = 7 -> setAllMotors(0) \o <<WriteOp(FRONT_RIGHT_PIN, speeds.medium),
                                     WriteOp(FRONT_LEFT_PIN, speeds.medium)>>
    [] t = 8 -> setAllMotors(0) \o <<WriteOp(BACK_RIGHT_PIN, speeds.medium),
                                     WriteOp(BACK_LEFT_PIN, speeds.medium)>>
    [] t = 9 -> setAllMotors(speeds.low)
    [] t = 10 -> setAllMotors(speeds.medium)
    [] t = 11 -> setAllMotors(speeds.high + 1)
    [] OTHER -> << >>

runTestFallThrough(t) ==
  CASE t = 0 -> setAllMotors(0)
    [] t = 1 -> setAllMotors(0) \o <<WriteOp(FRONT_RIGHT_PIN, speeds.medium)>>
                \o setAllMotors(0)
                \o <<WriteOp(BACK_RIGHT_PIN, speeds.medium)>>
    [] t = 2 -> setAllMotors(0) \o <<WriteOp(BACK_RIGHT_PIN, speeds.medium)>>
    [] t = 3 -> setAllMotors(0) \o <<WriteOp(FRONT_LEFT_PIN, speeds.medium)>>
    [] t = 4 -> setAllMotors(0) \o <<WriteOp(BACK_LEFT_PIN, speeds.medium)>>
    [] t = 5 -> setAllMotors(0) \o <<WriteOp(FRONT_RIGHT_PIN, speeds.medium),
                                     WriteOp(BACK_RIGHT_PIN, speeds.medium)>>
    [] t = 6 -> setAllMotors(0) \o <<WriteOp(FRONT_LEFT_PIN, speeds.medium),
                                     WriteOp(BACK_LEFT_PIN, speeds.medium)>>
    [] t = 7 -> setAllMotors(0) \o <<WriteOp(FRONT_RIGHT_PIN, speeds.medium),
                                     WriteOp(FRONT_LEFT_PIN, speeds.medium)>>
    [] t = 8 -> setAllMotors(0) \o <<WriteOp(BACK_RIGHT_PIN, speeds.medium),
                                     WriteOp(BACK_LEFT_PIN, speeds.medium)>>
    [] t = 9 -> setAllMotors(speeds.low)
    [] t = 10 -> setAllMotors(speeds.medium)
    [] t = 11 -> setAllMotors(speeds.high)
    [] OTHER -> << >>

runTestDefaultOff(t) ==
  CASE t = 0 -> setAllMotors(0)
    [] t = 1 -> setAllMotors(0) \o <<WriteOp(FRONT_RIGHT_PIN, speeds.medium)>>
    [] t = 2 -> setAllMotors(0) \o <<WriteOp(BACK_RIGHT_PIN, speeds.medium)>>
    [] t = 3 -> setAllMotors(0) \o <<WriteOp(FRONT_LEFT_PIN, speeds.medium)>>
    [] t = 4 -> setAllMotors(0) \o <<WriteOp(BACK_LEFT_PIN, speeds.medium)>>
    [] t = 5 -> setAllMotors(0) \o <<WriteOp(FRONT_RIGHT_PIN, speeds.medium),
                                     WriteOp(BACK_RIGHT_PIN, speeds.medium)>>
    [] t = 6 -> setAllMotors(0) \o <<WriteOp(FRONT_LEFT_PIN, speeds.medium),
                                     WriteOp(BACK_LEFT_PIN, speeds.medium)>>
    [] t = 7 -> setAllMotors(0) \o <<WriteOp(FRONT_RIGHT_PIN, speeds.medium),
                                     WriteOp(FRONT_LEFT_PIN, speeds.medium)>>
    [] t = 8 -> setAllMotors(0) \o <<WriteOp(BACK_RIGHT_PIN, speeds.medium),
                                     WriteOp(BACK_LEFT_PIN, speeds.medium)>>
    [] t = 9 -> setAllMotors(speeds.low)
    [] t = 10 -> setAllMotors(speeds.medium)
    [] t = 11 -> setAllMotors(speeds.high)
    [] OTHER -> setAllMotors(0)

runTest(t) ==
  CASE t = 0 -> setAllMotors(0)
    [] t = 1 -> setAllMotors(0) \o <<WriteOp(FRONT_RIGHT_PIN, speeds.medium)>>
    [] t = 2 -> setAllMotors(0) \o <<WriteOp(BACK_RIGHT_PIN, speeds.medium)>>
    [] t = 3 -> setAllMotors(0) \o <<WriteOp(FRONT_LEFT_PIN, speeds.medium)>>
    [] t = 4 -> setAllMotors(0) \o <<WriteOp(BACK_LEFT_PIN, speeds.medium)>>
    [] t = 5 -> setAllMotors(0) \o <<WriteOp(FRONT_RIGHT_PIN, speeds.medium),
                                     WriteOp(BACK_RIGHT_PIN, speeds.medium)>>
    [] t = 6 -> setAllMotors(0) \o <<WriteOp(FRONT_LEFT_PIN, speeds.medium),
                                     WriteOp(BACK_LEFT_PIN, speeds.medium)>>
    [] t = 7 -> setAllMotors(0) \o <<WriteOp(FRONT_RIGHT_PIN, speeds.medium),
                                     WriteOp(FRONT_LEFT_PIN, speeds.medium)>>
    [] t = 8 -> setAllMotors(0) \o <<WriteOp(BACK_RIGHT_PIN, speeds.medium),
                                     WriteOp(BACK_LEFT_PIN, speeds.medium)>>
    [] t = 9 -> setAllMotors(speeds.low)
    [] t = 10 -> setAllMotors(speeds.medium)
    [] t = 11 -> setAllMotors(speeds.high)
    [] OTHER -> << >>

(* ---- the index arithmetic of loop() ----------------------------------- *)
(* currentTest++ on an INT_BITS wide two's complement int *)
IncrementSkip(c) ==
  ((c + 2 + 2^(INT_BITS - 1)) % 2^INT_BITS) - 2^(INT_BITS - 1)

Increment(c) ==
  ((c + 1 + 2^(INT_BITS - 1)) % 2^INT_BITS) - 2^(INT_BITS - 1)

(* if (currentTest >= TOTAL_TESTS) currentTest = 0; *)
WrapOffByOne(c) == IF c > TOTAL_TESTS THEN 0 ELSE c

WrapToOne(c) == IF c >= TOTAL_TESTS THEN 1 ELSE c

WrapEarly(c) == IF c >= TOTAL_TESTS - 1 THEN 0 ELSE c

Wrap(c) == IF c >= TOTAL_TESTS THEN 0 ELSE c

(* ---- history kept for the properties ---------------------------------- *)
CountTick(n) == IF n < MaxTicks THEN n + 1 ELSE n

Push(w, i) ==
  LET w2 == Append(w, i)
  IN  IF Len(w2) > WindowLen THEN Tail(w2) ELSE w2

(* ---- the sequencer as specified: initialize(), then tick() and suspend - *)
(* the step table of the specification, rows 0..11, channels FR BR FL BL *)
StepTable ==
  << <<0, 0, 0, 0>>,
     <<180, 0, 0, 0>>,
     <<0, 180, 0, 0>>,
     <<0, 0, 180, 0>>,
     <<0, 0, 0, 180>>,
     <<180, 180, 0, 0>>,
     <<0, 0, 180, 180>>,
     <<180, 0, 180, 0>>,
     <<0, 180, 0, 180>>,
     <<100, 100, 100, 100>>,
     <<180, 180, 180, 180>>,
     <<255, 255, 255, 255>> >>

ValidIndex == 0 .. (TOTAL_TESTS - 1)

(* initialize(): all four channel outputs are set to 0 *)
initialize == <<0, 0, 0, 0>>

(* applyStep(table[i]): each channel's output becomes its value in row i *)
applyStep(i) == StepTable[i + 1]

(* tick(): the index advances by 1 modulo the table length *)
tickIndex(i) == (i + 1) % Len(StepTable)

(* ---- ensure-skills: the files the scripts look at ---------------------- *)
SkillNames == {"build123", "draft"}

TargetBases == <<".claude/skills", ".agents/skills">>

TargetSet == {TargetBases[k] : k \in 1 .. Len(TargetBases)}

(* the script variables while only the sketch is looked at *)
ScriptNotRun ==
  /\ shell = "sh"
  /\ srcExists = TRUE
  /\ hasMd = [n \in SkillNames |-> n = "build123"]
  /\ base = [b \in TargetSet |-> "absent"]
  /\ entry = [e \in TargetSet \X SkillNames |-> "absent"]
  /\ created = 0
  /\ skipped = 0
  /\ warnings = 0
  /\ run = 0
  /\ cursor = 1
  /\ status = "idle"
  /\ linked = 0

(* ---- initial state: power-up, before main() calls setup() ------------- *)
Init ==
  /\ out \in [Pins -> PriorVals]
  /\ mode = [p \in Pins |-> "INPUT"]
  /\ currentTest = 0
  /\ pc = "boot"
  /\ pending = << >>
  /\ test = << >>
  /\ before = out
  /\ lastWrite = << >>
  /\ ticks = 0
  /\ window = << >>
  /\ calls = 0
  /\ speeds = BuiltSpeeds
  /\ waited = 0
  /\ specIndex = 0
  /\ specOut = Outputs
  /\ ScriptNotRun

(* ---- Spec: one action per handler ------------------------------------- *)
setup ==
  /\ pc = "boot"
  /\ LET s == Run(PinState, setupBody)
     IN  /\ out' = s.out
         /\ mode' = s.mode
         /\ lastWrite' = s.lastWrite
  /\ before' = out
  /\ pc' = "loop"
  /\ UNCHANGED <<currentTest, pending, test, ticks, window, calls>>
  /\ UNCHANGED <<speeds, waited, scriptVars>>
  /\ specOut' = initialize
  /\ UNCHANGED specIndex

loop ==
  /\ pc = "loop"
  /\ LET s == Run(PinState, runTest(currentTest))
     IN  /\ out' = s.out
         /\ mode' = s.mode
         /\ lastWrite' = s.lastWrite
  /\ test' = <<currentTest>>
  /\ before' = out
  /\ currentTest' = Wrap(Increment(currentTest))
  /\ ticks' = CountTick(ticks)
  /\ window' = Push(window, currentTest)
  /\ pc' = "loop"
  /\ UNCHANGED <<pending, calls>>
  /\ waited' = TEST_INTERVAL
  /\ UNCHANGED <<speeds, scriptVars>>
  /\ specOut' = applyStep(specIndex)
  /\ specIndex' = tickIndex(specIndex)

Next == setup \/ loop

Spec == Init /\ [][Next]_vars

(* main() of the Arduino core calls setup() and then loop() in a for(;;), *)
(* so an enabled handler is eventually run                                 *)
FairSpec == Init /\ [][Next]_vars /\ WF_vars(setup) /\ WF_vars(loop)

(* ---- SpecStmt: one action per statement ------------------------------- *)
SetupCall ==
  /\ pc = "boot"
  /\ pending' = setupBody
  /\ before' = out
  /\ pc' = "setup"
  /\ UNCHANGED <<out, mode, currentTest, test, lastWrite, ticks, window,
                 calls>>
  /\ UNCHANGED <<speeds, waited, scriptVars, specVars>>

PinMode ==
  /\ pc = "setup"
  /\ pending # << >>
  /\ Head(pending).op = "pinMode"
  /\ mode' = Exec(PinState, Head(pending)).mode
  /\ pending' = Tail(pending)
  /\ UNCHANGED <<out, currentTest, pc, test, before, lastWrite, ticks,
                 window, calls>>
  /\ UNCHANGED <<speeds, waited, scriptVars, specVars>>

AnalogWrite ==
  /\ pc \in {"setup", "runTest"}
  /\ pending # << >>
  /\ Head(pending).op = "analogWrite"
  /\ LET s == Exec(PinState, Head(pending))
     IN  /\ out' = s.out
         /\ lastWrite' = s.lastWrite
  /\ pending' = Tail(pending)
  /\ UNCHANGED <<mode, currentTest, pc, test, before, ticks, window, calls>>
  /\ UNCHANGED <<speeds, waited, scriptVars, specVars>>

SetupReturn ==
  /\ pc = "setup"
  /\ pending = << >>
  /\ pc' = "loop"
  /\ UNCHANGED <<out, mode, currentTest, pending, test, before, lastWrite,
                 ticks, window, calls>>
  /\ UNCHANGED <<speeds, waited, scriptVars>>
  /\ specOut' = initialize
  /\ UNCHANGED specIndex

RunTestCall ==
  /\ pc = "loop"
  /\ test' = <<currentTest>>
  /\ pending' = runTest(currentTest)
  /\ before' = out
  /\ window' = Push(window, currentTest)
  /\ pc' = "runTest"
  /\ UNCHANGED <<out, mode, currentTest, lastWrite, ticks, calls>>
  /\ waited' = 0
  /\ UNCHANGED <<speeds, scriptVars, specVars>>

RunTestReturnAdvances ==
  /\ pc = "runTest"
  /\ pending = << >>
  /\ pc' = "delay"
  /\ currentTest' = Increment(currentTest)
  /\ UNCHANGED <<out, mode, pending, test, before, lastWrite, ticks, window,
                 calls>>
  /\ UNCHANGED <<speeds, waited, scriptVars>>
  /\ specOut' = applyStep(specIndex)
  /\ specIndex' = tickIndex(specIndex)

RunTestReturn ==
  /\ pc = "runTest"
  /\ pending = << >>
  /\ pc' = "delay"
  /\ UNCHANGED <<out, mode, currentTest, pending, test, before, lastWrite,
                 ticks, window, calls>>
  /\ UNCHANGED <<speeds, waited, scriptVars>>
  /\ specOut' = applyStep(specIndex)
  /\ specIndex' = tickIndex(specIndex)

DelayTwice ==
  /\ pc = "delay"
  /\ pc' = "inc"
  /\ UNCHANGED <<out, mode, currentTest, pending, test, before, lastWrite,
                 ticks, window, calls>>
  /\ waited' = waited + TEST_INTERVAL + TEST_INTERVAL
  /\ UNCHANGED <<speeds, scriptVars, specVars>>

Delay ==
  /\ pc = "delay"
  /\ pc' = "inc"
  /\ UNCHANGED <<out, mode, currentTest, pending, test, before, lastWrite,
                 ticks, window, calls>>
  /\ waited' = waited + TEST_INTERVAL
  /\ UNCHANGED <<speeds, scriptVars, specVars>>

IncrementIndex ==
  /\ pc = "inc"
  /\ currentTest' = Increment(currentTest)
  /\ pc' = "wrap"
  /\ UNCHANGED <<out, mode, pending, test, before, lastWrite, ticks, window,
                 calls>>
  /\ UNCHANGED <<speeds, waited, scriptVars, specVars>>

WrapCheck ==
  /\ pc = "wrap"
  /\ currentTest' = Wrap(currentTest)
  /\ ticks' = CountTick(ticks)
  /\ pc' = "loop"
  /\ UNCHANGED <<out, mode, pending, test, before, lastWrite, window, calls>>
  /\ UNCHANGED <<speeds, waited, scriptVars, specVars>>

NextStmt ==
  \/ SetupCall
  \/ PinMode
  \/ AnalogWrite
  \/ SetupReturn
  \/ RunTestCall
  \/ RunTestReturn
  \/ Delay
  \/ IncrementIndex
  \/ WrapCheck

SpecStmt == Init /\ [][NextStmt]_vars

(* ---- SpecConfig: the sketch built with other speed constants ---------- *)
(* builds whose medium or high speed is the one of the sketch or lies just *)
(* outside the duty range                                                  *)
ConfigSpeeds ==
  {[low |-> SPEED_LOW, medium |-> m, high |-> h] :
     m \in {SPEED_MEDIUM, 0 - SpeedSlack},
     h \in {SPEED_HIGH, SPEED_HIGH + SpeedSlack}}

InitConfig ==
  /\ out \in [Pins -> PriorVals]
  /\ mode = [p \in Pins |-> "INPUT"]
  /\ currentTest = 0
  /\ pc = "boot"
  /\ pending = << >>
  /\ test = << >>
  /\ before = out
  /\ lastWrite = << >>
  /\ ticks = 0
  /\ window = << >>
  /\ calls = 0
  /\ speeds \in ConfigSpeeds
  /\ waited = 0
  /\ specIndex = 0
  /\ specOut = Outputs
  /\ ScriptNotRun

SpecConfig == InitConfig /\ [][NextStmt]_vars

(* ---- SpecApply: runTest(test) applied to any outputs ------------------ *)
InitApply ==
  /\ out \in [Pins -> PriorVals]
  /\ mode = [p \in Pins |-> "OUTPUT"]
  /\ currentTest \in {0, TOTAL_TESTS - 1}
  /\ pc = "apply"
  /\ pending = << >>
  /\ test \in {<<t>> : t \in TestArgs}
  /\ before = out
  /\ lastWrite = << >>
  /\ ticks = 0
  /\ window = << >>
  /\ calls = 0
  /\ speeds = BuiltSpeeds
  /\ waited = 0
  /\ specIndex = 0
  /\ specOut = Outputs
  /\ ScriptNotRun

ApplyRunTest ==
  /\ pc = "apply"
  /\ calls < MaxCalls
  /\ LET s == Run(PinState, runTest(test[1]))
     IN  /\ out' = s.out
         /\ mode' = s.mode
         /\ lastWrite' = s.lastWrite
  /\ calls' = calls + 1
  /\ UNCHANGED <<currentTest, pc, pending, test, before, ticks, window>>
  /\ UNCHANGED <<speeds, waited, scriptVars, specVars>>

(* setAllMotors(speed) called on its own with any int speed *)
ApplySetAllMotors ==
  /\ pc = "apply"
  /\ calls = 0
  /\ \E speed \in SpeedArgs :
       LET s == Run(PinState, setAllMotors(speed))
       IN  /\ out' = s.out
           /\ mode' = s.mode
           /\ lastWrite' = s.lastWrite
  /\ pc' = "setAllDone"
  /\ UNCHANGED <<currentTest, pending, test, before, ticks, window, calls>>
  /\ UNCHANGED <<speeds, waited, scriptVars, specVars>>

NextApply == ApplyRunTest \/ ApplySetAllMotors

SpecApply == InitApply /\ [][NextApply]_vars

(* ---- SpecSkills: ensure-skills.sh / ensure-skills.ps1 ------------------ *)
(* What may be found at <target>/<skill>:                                  *)
(*   "absent"      nothing                                                 *)
(*   "link_src"    a link that resolves to the skill's source directory    *)
(*   "link_other"  a link that resolves to another existing directory      *)
(*   "broken"      a link whose target does not exist                      *)
(*   "dir"         a real directory                                        *)
(*   "file"        a regular file                                          *)
EntryKinds == {"absent", "link_src", "link_other", "broken", "dir", "file"}

(* the skill directories in the order the glob / Get-ChildItem yields them *)
SkillOrder == <<"build123", "draft">>

(* the <<skill, target>> pairs in the order of the two nested loops *)
Pairs ==
  [k \in 1 .. (Len(SkillOrder) * Len(TargetBases)) |->
     [skill |-> SkillOrder[((k - 1) \div Len(TargetBases)) + 1],
      target |-> TargetBases[((k - 1) % Len(TargetBases)) + 1]]]

ScriptState ==
  [base |-> base, entry |-> entry, created |-> created,
   skipped |-> skipped, warnings |-> warnings, cursor |-> cursor,
   status |-> status]

(* one pass of the inner loop body of ensure-skills.sh (lines 35-53):      *)
(* mkdir -p fails on a regular file and ln -s fails on a dangling link,    *)
(* and set -e then ends the script                                         *)
EnsureShNoCheck(st, tb, sk) ==
  LET kind == st.entry[<<tb, sk>>]
      made == [st EXCEPT !.base[tb] = "dir"]
  IN  IF st.base[tb] = "file"
      THEN {[st EXCEPT !.status = "aborted"]}
      ELSE IF kind \in {"link_other", "dir", "file"}
      THEN {[made EXCEPT !.warnings = @ + 1, !.cursor = @ + 1]}
      ELSE IF kind \in {"absent", "link_src"}
      THEN {[made EXCEPT !.entry[<<tb, sk>>] = "link_src",
                         !.created = @ + 1, !.cursor = @ + 1]}
      ELSE {[made EXCEPT !.status = "aborted"]}

EnsureSh(st, tb, sk) ==
  LET kind == st.entry[<<tb, sk>>]
      made == [st EXCEPT !.base[tb] = "dir"]
      exists == kind \in {"link_src", "link_other", "dir", "file"}
      isDir == kind \in {"link_src", "link_other", "dir"}
  IN  IF st.base[tb] = "file"
      THEN {[st EXCEPT !.status = "aborted"]}
      ELSE IF exists
      THEN IF isDir /\ kind = "link_src"
           THEN {[made EXCEPT !.skipped = @ + 1, !.cursor = @ + 1]}
           ELSE {[made EXCEPT !.warnings = @ + 1, !.cursor = @ + 1]}
      ELSE IF kind = "absent"
      THEN {[made EXCEPT !.entry[<<tb, sk>>] = "link_src",
                         !.created = @ + 1, !.cursor = @ + 1]}
      ELSE {[made EXCEPT !.status = "aborted"]}

(* one pass of the inner loop body of ensure-skills.ps1 (lines 40-72).     *)
(* Test-Path sees a link itself, so a dangling link exists.  Whether       *)
(* Resolve-Path yields the link's own path or the directory it points to   *)
(* is left open: a link to the source is either skipped or warned about.   *)
EnsurePs1(st, tb, sk) ==
  LET kind == st.entry[<<tb, sk>>]
      made == IF st.base[tb] = "absent"
              THEN [st EXCEPT !.base[tb] = "dir"] ELSE st
      exists == kind # "absent"
      isLink == kind \in {"link_src", "link_other", "broken"}
  IN  IF exists
      THEN (IF isLink /\ kind = "link_src"
            THEN {[made EXCEPT !.skipped = @ + 1, !.cursor = @ + 1]}
            ELSE {})
           \cup {[made EXCEPT !.warnings = @ + 1, !.cursor = @ + 1]}
      ELSE {[made EXCEPT !.entry[<<tb, sk>>] = "link_src",
                         !.created = @ + 1, !.cursor = @ + 1]}

(* the file system states a script may find *)
InitSkills ==
  /\ out = [p \in Pins |-> 0]
  /\ mode = [p \in Pins |-> "INPUT"]
  /\ currentTest = 0
  /\ pc = "boot"
  /\ pending = << >>
  /\ test = << >>
  /\ before = out
  /\ lastWrite = << >>
  /\ ticks = 0
  /\ window = << >>
  /\ calls = 0
  /\ speeds = BuiltSpeeds
  /\ waited = 0
  /\ specIndex = 0
  /\ specOut = Outputs
  /\ shell \in {"sh", "ps1"}
  /\ srcExists \in BOOLEAN
  /\ hasMd \in [SkillNames -> BOOLEAN]
  /\ hasMd["build123"] = srcExists
  /\ ~srcExists => hasMd = [n \in SkillNames |-> FALSE]
  /\ base \in [TargetSet -> {"absent", "dir", "file"}]
  /\ shell = "ps1" => \A b \in TargetSet : base[b] # "file"
  /\ entry \in [TargetSet \X SkillNames -> EntryKinds]
  /\ \A e \in TargetSet \X SkillNames :
       /\ base[e[1]] # "dir" => entry[e] = "absent"
       /\ ~srcExists => entry[e] # "link_src"
  /\ created = 0
  /\ skipped = 0
  /\ warnings = 0
  /\ run = 0
  /\ cursor = 1
  /\ status = "idle"
  /\ linked = 0

(* the script is started (lines 20-27 of the .sh, 23-30 of the .ps1) *)
StartRun ==
  /\ status \in {"idle", "done"}
  /\ run < MaxRuns
  /\ run' = run + 1
  /\ created' = 0
  /\ skipped' = 0
  /\ warnings' = 0
  /\ cursor' = 1
  /\ status' = IF srcExists THEN "running" ELSE "done"
  /\ UNCHANGED <<shell, srcExists, hasMd, base, entry, linked>>
  /\ UNCHANGED sketchVars

(* a skill directory without SKILL.md is passed over (line 30 / line 34) *)
SkipSkill ==
  /\ status = "running"
  /\ cursor <= Len(Pairs)
  /\ ~hasMd[Pairs[cursor].skill]
  /\ cursor' = cursor + Len(TargetBases)
  /\ UNCHANGED <<shell, srcExists, hasMd, base, entry, created, skipped,
                 warnings, run, status, linked>>
  /\ UNCHANGED sketchVars

(* the inner loop body for the pair at the cursor *)
ProcessPair ==
  /\ status = "running"
  /\ cursor <= Len(Pairs)
  /\ hasMd[Pairs[cursor].skill]
  /\ \E st \in (IF shell = "sh"
                THEN EnsureSh(ScriptState, Pairs[cursor].target,
                              Pairs[cursor].skill)
                ELSE EnsurePs1(ScriptState, Pairs[cursor].target,
                               Pairs[cursor].skill)) :
       /\ base' = st.base
       /\ entry' = st.entry
       /\ created' = st.created
       /\ skipped' = st.skipped
       /\ warnings' = st.warnings
       /\ cursor' = st.cursor
       /\ status' = st.status
       /\ linked' = linked + (st.created - created)
  /\ UNCHANGED <<shell, srcExists, hasMd, run>>
  /\ UNCHANGED sketchVars

(* both loops are done; the summary line is printed *)
FinishRun ==
  /\ status = "running"
  /\ cursor > Len(Pairs)
  /\ status' = "done"
  /\ UNCHANGED <<shell, srcExists, hasMd, base, entry, created, skipped,
                 warnings, run, cursor, linked>>
  /\ UNCHANGED sketchVars

NextSkills == StartRun \/ SkipSkill \/ ProcessPair \/ FinishRun

SpecSkills == InitSkills /\ [][NextSkills]_vars

(* ---- SpecRight: the right-motors test sketch -------------------------- *)
(* The sketch drives FRONT_RIGHT_PIN and BACK_RIGHT_PIN only; it has its   *)
(* own TEST_INTERVAL, six steps written out in its runTest, and its own    *)
(* wrap check.  Its names carry the prefix right where they would clash.   *)
RIGHT_TEST_INTERVAL == 5000

rightSetupBody ==
  << PinModeOp(FRONT_RIGHT_PIN),
     PinModeOp(BACK_RIGHT_PIN),
     WriteOp(FRONT_RIGHT_PIN, 0),
     WriteOp(BACK_RIGHT_PIN, 0) >>

rightRunTest(t) ==
  CASE t = 0 -> <<WriteOp(FRONT_RIGHT_PIN, 0), WriteOp(BACK_RIGHT_PIN, 0)>>
    [] t = 1 -> <<WriteOp(FRONT_RIGHT_PIN, 100), WriteOp(BACK_RIGHT_PIN, 0)>>
    [] t = 2 -> <<WriteOp(FRONT_RIGHT_PIN, 0), WriteOp(BACK_RIGHT_PIN, 100)>>
    [] t = 3 -> <<WriteOp(FRONT_RIGHT_PIN, 100), WriteOp(BACK_RIGHT_PIN, 100)>>
    [] t = 4 -> <<WriteOp(FRONT_RIGHT_PIN, 180), WriteOp(BACK_RIGHT_PIN, 180)>>
    [] t = 5 -> <<WriteOp(FRONT_RIGHT_PIN, 255), WriteOp(BACK_RIGHT_PIN, 255)>>
    [] OTHER -> << >>

(* if (currentTest > 5) currentTest = 0; *)
rightWrapLate(c) == IF c > 6 THEN 0 ELSE c

rightWrap(c) == IF c > 5 THEN 0 ELSE c

rightSetup ==
  /\ pc = "boot"
  /\ LET s == Run(PinState, rightSetupBody)
     IN  /\ out' = s.out
         /\ mode' = s.mode
         /\ lastWrite' = s.lastWrite
  /\ before' = out
  /\ pc' = "loop"
  /\ UNCHANGED <<currentTest, pending, test, ticks, window, calls>>
  /\ UNCHANGED <<speeds, waited, scriptVars, specVars>>

rightLoop ==
  /\ pc = "loop"
  /\ LET s == Run(PinState, rightRunTest(currentTest))
     IN  /\ out' = s.out
         /\ mode' = s.mode
         /\ lastWrite' = s.lastWrite
  /\ test' = <<currentTest>>
  /\ before' = out
  /\ currentTest' = rightWrap(Increment(currentTest))
  /\ ticks' = CountTick(ticks)
  /\ window' = Push(window, currentTest)
  /\ pc' = "loop"
  /\ waited' = RIGHT_TEST_INTERVAL
  /\ UNCHANGED <<pending, calls>>
  /\ UNCHANGED <<speeds, scriptVars, specVars>>

NextRight == rightSetup \/ rightLoop

SpecRight == Init /\ [][NextRight]_vars

(* ======================================================================= *)
(* Properties                                                              *)
(* ======================================================================= *)

(* C1 (SpecApply): for every step index i in 0..11 and every prior state   *)
(* of the four outputs, once runTest(i) has completed the outputs          *)
(* (FR, BR, FL, BL) equal row i of the step table.                         *)
C1_RunTestMatchesTable ==
  (pc = "apply" /\ calls >= 1 /\ test[1] \in ValidIndex)
    => Outputs = StepTable[test[1] + 1]

C1_Witness ==
  /\ pc = "apply"
  /\ calls = 1
  /\ test = <<7>>
  /\ before = [p \in Pins |-> SPEED_HIGH]
  /\ Outputs = <<180, 0, 180, 0>>

(* C2 (Spec): one iteration of loop() started with the index equal to i    *)
(* leaves the outputs equal to step i and the index equal to (i+1) mod 12, *)
(* and the index changes in no other transition.                           *)
C2_TickAppliesAndAdvances ==
  [][ /\ pc = "loop" =>
           /\ currentTest \in ValidIndex
           /\ Outputs' = StepTable[currentTest + 1]
           /\ test' = <<currentTest>>
           /\ currentTest' = (currentTest + 1) % TOTAL_TESTS
      /\ currentTest' # currentTest => (pc = "loop" /\ pc' = "loop")
    ]_vars

C2_Witness ==
  /\ pc = "loop"
  /\ test = <<11>>
  /\ currentTest = 0
  /\ Outputs = <<255, 255, 255, 255>>

(* C3 (Spec): from any index i, 12 consecutive ticks bring the index back  *)
(* to i and no smaller positive number of ticks does.  window holds the    *)
(* index at the start of each of the latest 13 ticks.                      *)
C3_CyclicPeriodTwelve ==
  Len(window) = WindowLen =>
    /\ window[TOTAL_TESTS + 1] = window[1]
    /\ \A k \in 1 .. (TOTAL_TESTS - 1) : window[k + 1] # window[1]

C3_Witness ==
  /\ Len(window) = WindowLen
  /\ window[1] = 5
  /\ window[TOTAL_TESTS + 1] = 5

(* C4 (Spec): in every reachable state of the sequencer (the states        *)
(* between handler executions) currentTest is a valid index, 0..11.        *)
C4_IndexValid == currentTest \in 0 .. 11

C4_Witness ==
  /\ pc = "loop"
  /\ currentTest = 11
  /\ ticks = 23

(* C5 (Spec): when setup() has completed all four outputs are 0 and the    *)
(* index is 0, whatever the outputs were before.                           *)
C5_SetupAllOff ==
  (pc = "loop" /\ ticks = 0 /\ test = << >>)
    => (Outputs = <<0, 0, 0, 0>> /\ currentTest = 0)

C5_Witness ==
  /\ pc = "loop"
  /\ ticks = 0
  /\ test = << >>
  /\ before = [p \in Pins |-> SPEED_HIGH]
  /\ Outputs = <<0, 0, 0, 0>>

(* C6 (SpecStmt): every duty-cycle value written to a channel by any       *)
(* analogWrite of setup, setAllMotors or runTest lies in 0..255.           *)
C6_WritesInRange ==
  lastWrite # << >> => (lastWrite[1] \in Pins /\ lastWrite[2] \in 0 .. 255)

C6_Witness ==
  /\ pc = "runTest"
  /\ ticks >= TOTAL_TESTS
  /\ lastWrite = <<BACK_LEFT_PIN, 255>>

(* C7, as stated (Spec): after exactly 1 tick from the initial state FR    *)
(* reads 180 and BR, FL, BL read 0.                                        *)
C7_AsStated ==
  (pc = "loop" /\ ticks = 1) => Outputs = <<180, 0, 0, 0>>

(* C7, amended (Spec): after exactly 1 tick from the initial state all     *)
(* four channels still read 0 and the index is 1; after exactly 2 ticks FR *)
(* reads 180 and BR, FL, BL read 0.                                        *)
C7_AfterTwoTicks ==
  /\ (pc = "loop" /\ ticks = 1)
       => (Outputs = <<0, 0, 0, 0>> /\ currentTest = 1)
  /\ (pc = "loop" /\ ticks = 2)
       => (Outputs = <<180, 0, 0, 0>> /\ currentTest = 2)

C7_Witness ==
  /\ pc = "loop"
  /\ ticks = 2
  /\ test = <<1>>
  /\ out[FRONT_RIGHT_PIN] = 180

(* C8, as stated (Spec): after exactly 12 ticks from the initial state the *)
(* index is 0 and all four channels read 0.                                *)
C8_AsStated ==
  (pc = "loop" /\ ticks = 12) => (currentTest = 0 /\ Outputs = <<0, 0, 0, 0>>)

(* C8, amended (Spec): after exactly 12 ticks from the initial state the   *)
(* index is 0 and all four channels read 255, the values of step 11; they  *)
(* read 0 again after the 13th tick.                                       *)
C8_AfterTwelveTicks ==
  /\ (pc = "loop" /\ ticks = 12)
       => (currentTest = 0 /\ Outputs = <<255, 255, 255, 255>>)
  /\ (pc = "loop" /\ ticks = 13)
       => (currentTest = 1 /\ Outputs = <<0, 0, 0, 0>>)

C8_Witness ==
  /\ pc = "loop"
  /\ ticks = 12
  /\ currentTest = 0
  /\ test = <<11>>

(* C9 (SpecApply): runTest(i) is idempotent: for every i in 0..11 and      *)
(* every prior output state a second call in a row leaves the outputs as   *)
(* the first call left them.                                               *)
C9_RunTestIdempotent ==
  [][ (pc = "apply" /\ calls >= 1 /\ test[1] \in ValidIndex)
        => Outputs' = Outputs ]_vars

C9_Witness ==
  /\ pc = "apply"
  /\ calls = 2
  /\ test = <<5>>
  /\ before = [p \in Pins |-> SPEED_LOW]
  /\ Outputs = <<180, 180, 0, 0>>

(* C10 (SpecStmt): currentTest is changed only by the advance part of      *)
(* loop(); setup, setAllMotors, runTest and the delay leave it unchanged,  *)
(* and runTest / setAllMotors change no program variable other than the    *)
(* four outputs.                                                           *)
C10_IndexFrame ==
  [][ /\ currentTest' # currentTest => pc \in {"inc", "wrap"}
      /\ pc \in {"boot", "setup", "loop", "runTest", "delay"}
           => currentTest' = currentTest
      /\ (pc \in {"loop", "runTest"}
          \/ (pc = "setup" /\ pending # << >>
              /\ Head(pending).op = "analogWrite"))
           => (mode' = mode /\ currentTest' = currentTest)
    ]_vars

C10_Witness ==
  /\ pc = "inc"
  /\ currentTest = 7
  /\ test = <<7>>
  /\ ticks >= TOTAL_TESTS
  /\ Outputs = <<180, 0, 180, 0>>

(* C11 (FairSpec): the sequencer has no terminal state: a handler is      *)
(* enabled in every reachable state and loop() is enabled whenever control *)
(* is at the top of the loop; under fair scheduling of the loop every step *)
(* index 0..11 is applied infinitely often.                                *)
C11_RunsForever ==
  /\ [](ENABLED Next)
  /\ [](pc = "loop" => ENABLED loop)
  /\ \A i \in ValidIndex : []<>(pc = "loop" /\ test = <<i>>)

C11_Witness ==
  /\ pc = "loop"
  /\ test = <<11>>
  /\ currentTest = 0
  /\ ticks >= 2 * TOTAL_TESTS

(* C12 (Spec): the steps are applied in the fixed table order 0, 1, ...,   *)
(* 11, 0, 1, ...: consecutive applied indices differ by one modulo 12, the *)
(* n-th tick applies index (n - 1) mod 12, every 12 consecutive ticks      *)
(* apply each index exactly once, and step i leaves the same outputs in    *)
(* every cycle.                                                            *)
C12_FixedOrder ==
  /\ \A k \in 1 .. (Len(window) - 1) :
       window[k + 1] = (window[k] + 1) % TOTAL_TESTS
  /\ (window # << >> /\ ticks < MaxTicks)
       => window[Len(window)] = (ticks - 1) % TOTAL_TESTS
  /\ Len(window) >= TOTAL_TESTS
       => \A i \in ValidIndex :
            Cardinality({k \in (Len(window) - TOTAL_TESTS + 1) .. Len(window) :
                           window[k] = i}) = 1
  /\ (pc = "loop" /\ test # << >>)
       => /\ test[1] = window[Len(window)]
          /\ Outputs = StepTable[test[1] + 1]

C12_Witness ==
  /\ pc = "loop"
  /\ Len(window) = WindowLen
  /\ window[1] = 3
  /\ test = <<3>>
  /\ ticks >= 2 * TOTAL_TESTS
  /\ Outputs = <<0, 0, 180, 0>>

(* the channels in the order FR, BR, FL, BL of the step table *)
ChannelPins ==
  <<FRONT_RIGHT_PIN, BACK_RIGHT_PIN, FRONT_LEFT_PIN, BACK_LEFT_PIN>>

(* the writes step i is expected to make, in order: the common base value  *)
(* to the four channels, then the table value of each driven channel       *)
ExpectedWrites(i) ==
  LET row == StepTable[i + 1]
      b == IF row[1] = row[2] /\ row[2] = row[3] /\ row[3] = row[4]
           THEN row[1] ELSE 0
      all == [k \in 1 .. 4 |-> <<ChannelPins[k], b>>]
      own == [k \in 1 .. 4 |-> <<ChannelPins[k], row[k]>>]
  IN  all \o SelectSeq(own, LAMBDA w : w[2] # b)

Duty == {0, SPEED_LOW, SPEED_MEDIUM, SPEED_HIGH}

Positions ==
  {"boot", "setup", "loop", "runTest", "delay", "inc", "wrap"}

(* C13 (SpecStmt): the sketch is deterministic and reads no input: every   *)
(* reachable state has exactly one successor (one next position, index,    *)
(* output state and latest write), and the write or delay made at each     *)
(* position of the execution is the same whatever the pins held at         *)
(* power-up: the j-th write of the tick that applies step i is the j-th    *)
(* expected write of step i, and tick n applies step (n mod 12).           *)
C13_Deterministic ==
  /\ Cardinality({q \in Positions : ENABLED (NextStmt /\ pc' = q)}) = 1
  /\ Cardinality({c \in 0 .. TOTAL_TESTS :
                    ENABLED (NextStmt /\ currentTest' = c)}) = 1
  /\ Cardinality({o \in [Pins -> Duty] :
                    ENABLED (NextStmt /\ out' = o)}) = 1
  /\ Cardinality({w \in {<< >>} \cup (Pins \X Duty) :
                    ENABLED (NextStmt /\ lastWrite' = w)}) = 1
  /\ pc = "setup" =>
       /\ Len(pending) > 4 => lastWrite = << >>
       /\ Len(pending) < 4 => lastWrite = <<ChannelPins[4 - Len(pending)], 0>>
  /\ pc = "runTest" =>
       LET E == ExpectedWrites(test[1])
           j == Len(E) - Len(pending)
       IN  /\ j \in 0 .. Len(E)
           /\ j >= 1 => lastWrite = E[j]
           /\ ticks < MaxTicks => test[1] = ticks % TOTAL_TESTS
  /\ pc = "delay" => (pending = << >> /\ waited = 0)
  /\ pc \in {"inc", "wrap"} => waited = TEST_INTERVAL

C13_Witness ==
  /\ pc = "runTest"
  /\ test = <<7>>
  /\ Len(pending) = 1
  /\ lastWrite = <<FRONT_RIGHT_PIN, 180>>
  /\ ticks >= TOTAL_TESTS

(* C14 (SpecStmt): steps are applied once per fixed interval: when a step  *)
(* is about to be applied after another, exactly one delay of 2500 ms has  *)
(* elapsed since that one was applied; the delay writes no output, and the *)
(* outputs of step i are held until step (i + 1) mod 12 is applied.        *)
C14_OneDelayPerStep ==
  /\ [](/\ (pc = "loop" /\ test # << >>)
             => (waited = 2500 /\ currentTest = (test[1] + 1) % TOTAL_TESTS)
        /\ pc \in {"runTest", "delay"} => waited = 0
        /\ pc \in {"inc", "wrap"} => waited = 2500
        /\ (pc \in {"delay", "inc", "wrap"} \/ (pc = "loop" /\ test # << >>))
             => Outputs = StepTable[test[1] + 1])
  /\ [][ /\ pc = "delay"
              => (out' = out /\ lastWrite' = lastWrite
                  /\ waited' = waited + 2500)
         /\ waited' # waited => pc \in {"loop", "delay"}
         /\ out' # out => pc \in {"setup", "runTest"}
       ]_vars

C14_Witness ==
  /\ pc = "loop"
  /\ test = <<4>>
  /\ currentTest = 5
  /\ waited = 2500
  /\ ticks >= TOTAL_TESTS
  /\ Outputs = <<0, 0, 0, 180>>

(* C15, as stated (SpecStmt): whenever the sequencer is suspended in the   *)
(* delay that follows the application of step i, the index already equals  *)
(* (i + 1) mod 12.                                                         *)
C15_AsStated ==
  pc = "delay" => currentTest = (test[1] + 1) % TOTAL_TESTS

(* C15, amended (SpecStmt): the loop applies the current step, suspends    *)
(* for the interval and only then advances the index: during the delay     *)
(* that follows the application of step i the index still equals i, and it *)
(* equals (i + 1) mod 12 once the iteration has ended.                     *)
C15_AdvanceAfterDelay ==
  /\ pc = "delay" => (currentTest = test[1] /\ waited = 0)
  /\ pc = "inc" => (currentTest = test[1] /\ waited = TEST_INTERVAL)
  /\ (pc = "loop" /\ test # << >>)
       => (currentTest = (test[1] + 1) % TOTAL_TESTS
           /\ waited = TEST_INTERVAL)

C15_Witness ==
  /\ pc = "delay"
  /\ test = <<11>>
  /\ currentTest = 11
  /\ Outputs = <<255, 255, 255, 255>>

(* C16, as stated (SpecApply): duty-cycle values are clamped to 0..255:    *)
(* for every int speed, also below 0 and above 255, setAllMotors(speed)    *)
(* writes to each of the four channels a value within 0..255.              *)
C16_AsStated ==
  pc = "setAllDone" =>
    /\ \A p \in Pins : out[p] \in 0 .. 255
    /\ lastWrite[2] \in 0 .. 255

(* the step table the sketch is built with holds a value outside 0..255 *)
MalformedTable ==
  \/ speeds.low \notin 0 .. 255
  \/ speeds.medium \notin 0 .. 255
  \/ speeds.high \notin 0 .. 255

ChannelOf(pin) == CHOOSE k \in 1 .. 4 : ChannelPins[k] = pin

(* C19, as stated (SpecStmt): during runTest(i), i in 0..11, no channel is *)
(* ever written a value different from the one row i assigns to it.        *)
C19_AsStated ==
  [][ (pc = "runTest" /\ pending # << >>)
        => lastWrite'[2] = StepTable[test[1] + 1][ChannelOf(lastWrite'[1])]
    ]_vars

(* C19, amended (SpecStmt): during runTest(i), i in 0..11, every write to  *)
(* a channel writes either 0 or the value row i assigns to it, and when    *)
(* runTest(i) returns every channel holds the value row i assigns to it    *)
(* (steps 1..8 first write 0 to all four channels).                        *)
C19_ZeroThenTarget ==
  /\ [][ (pc = "runTest" /\ pending # << >>)
           => lastWrite'[2] \in
                {0, StepTable[test[1] + 1][ChannelOf(lastWrite'[1])]}
       ]_vars
  /\ []((pc = "runTest" /\ pending = << >>)
          => Outputs = StepTable[test[1] + 1])

C19_Witness ==
  /\ pc = "runTest"
  /\ test = <<7>>
  /\ before[FRONT_LEFT_PIN] = 180
  /\ lastWrite = <<FRONT_LEFT_PIN, 0>>
  /\ out[FRONT_LEFT_PIN] = 0

(* the channels that are driven (non-zero) *)
Driven == {p \in Pins : out[p] # 0}

(* C20 (Spec): after each of the steps 1, 2, 3, 4 exactly one channel is   *)
(* non-zero, at 180, namely FR, BR, FL, BL respectively, and the other     *)
(* three are 0; no other step leaves exactly one channel driven, and every *)
(* 12 consecutive ticks hold, for each channel, exactly one step that      *)
(* drives it alone.                                                        *)
C20_SingleMotorSteps ==
  /\ (pc = "loop" /\ test # << >>) =>
       /\ test[1] \in 1 .. 4 =>
            /\ Driven = {ChannelPins[test[1]]}
            /\ out[ChannelPins[test[1]]] = 180
       /\ Cardinality(Driven) = 1 => test[1] \in 1 .. 4
  /\ Len(window) >= TOTAL_TESTS =>
       \A c \in 1 .. 4 :
         Cardinality({k \in (Len(window) - TOTAL_TESTS + 1) .. Len(window) :
                        window[k] = c}) = 1

C20_Witness ==
  /\ pc = "loop"
  /\ test = <<3>>
  /\ ticks >= TOTAL_TESTS
  /\ Driven = {FRONT_LEFT_PIN}
  /\ Outputs = <<0, 0, 180, 0>>

PairOf ==
  [i \in 5 .. 8 |->
     CASE i = 5 -> {FRONT_RIGHT_PIN, BACK_RIGHT_PIN}
       [] i = 6 -> {FRONT_LEFT_PIN, BACK_LEFT_PIN}
       [] i = 7 -> {FRONT_RIGHT_PIN, FRONT_LEFT_PIN}
       [] i = 8 -> {BACK_RIGHT_PIN, BACK_LEFT_PIN}]

DiagonalPairs ==
  {{FRONT_RIGHT_PIN, BACK_LEFT_PIN}, {FRONT_LEFT_PIN, BACK_RIGHT_PIN}}

(* C21 (Spec): after each of the steps 5, 6, 7, 8 exactly two channels are  *)
(* at 180 and the other two at 0; the driven pairs are right (FR,BR), left  *)
(* (FL,BL), front (FR,FL) and back (BR,BL) respectively; only these steps   *)
(* leave exactly two channels driven, and no step leaves a diagonal pair    *)
(* (FR,BL) or (FL,BR) driven.                                               *)
C21_PairSteps ==
  (pc = "loop" /\ test # << >>) =>
    /\ test[1] \in 5 .. 8 =>
         /\ Driven = PairOf[test[1]]
         /\ Cardinality(Driven) = 2
         /\ \A p \in Driven : out[p] = 180
         /\ \A p \in Pins \ Driven : out[p] = 0
    /\ Cardinality(Driven) = 2 => test[1] \in 5 .. 8
    /\ Driven \notin DiagonalPairs

C21_Witness ==
  /\ pc = "loop"
  /\ test = <<7>>
  /\ ticks >= TOTAL_TESTS
  /\ Driven = {FRONT_RIGHT_PIN, FRONT_LEFT_PIN}
  /\ Outputs = <<180, 0, 180, 0>>

(* the common value of the steps that drive all four channels alike *)
CommonValue ==
  [i \in {0, 9, 10, 11} |->
     CASE i = 0 -> 0
       [] i = 9 -> 100
       [] i = 10 -> 180
       [] i = 11 -> 255]

(* C22 (Spec): after step 0 and after each of the steps 9, 10, 11 the four *)
(* channels hold one common value: 0, 100, 180 and 255 respectively; once  *)
(* setup() has run, 255 is present on a channel only while step 11 is the  *)
(* step last applied.                                                      *)
C22_AllMotorSteps ==
  /\ (pc = "loop" /\ test # << >> /\ test[1] \in {0, 9, 10, 11})
       => \A p \in Pins : out[p] = CommonValue[test[1]]
  /\ (pc = "loop" /\ \E p \in Pins : out[p] = 255) => test = <<11>>

C22_Witness ==
  /\ pc = "loop"
  /\ test = <<11>>
  /\ currentTest = 0
  /\ ticks >= TOTAL_TESTS
  /\ \A p \in Pins : out[p] = 255

(* C23 (SpecStmt): the four channels are bound to four pairwise distinct   *)
(* pins, FR=9, BR=10, FL=5, BL=6; a write to one channel leaves the        *)
(* outputs of the other three unchanged; and every statement that writes   *)
(* or configures a pin names one of these four.                            *)
C23_ChannelsIndependent ==
  /\ [](/\ ChannelPins = <<9, 10, 5, 6>>
        /\ Cardinality(Pins) = 4
        /\ \A j, k \in 1 .. 4 : j # k => ChannelPins[j] # ChannelPins[k]
        /\ \A k \in 1 .. Len(pending) : pending[k].pin \in Pins
        /\ lastWrite # << >> => lastWrite[1] \in Pins
        /\ DOMAIN out = Pins
        /\ DOMAIN mode = Pins)
  /\ [][ /\ (pending # << >> /\ Head(pending).op = "analogWrite")
              => /\ lastWrite'[1] = Head(pending).pin
                 /\ out'[Head(pending).pin] = Head(pending).val
                 /\ \A p \in Pins \ {Head(pending).pin} : out'[p] = out[p]
                 /\ mode' = mode
         /\ (pending # << >> /\ Head(pending).op = "pinMode")
              => /\ out' = out
                 /\ \A p \in Pins \ {Head(pending).pin} : mode'[p] = mode[p]
       ]_vars

C23_Witness ==
  /\ pc = "runTest"
  /\ test = <<5>>
  /\ lastWrite = <<FRONT_RIGHT_PIN, 180>>
  /\ out[FRONT_RIGHT_PIN] = 180
  /\ out[BACK_RIGHT_PIN] = 0
  /\ Len(pending) = 1

(* C24 (SpecStmt): setup() runs exactly once, entered from power-up only,  *)
(* and has completed before the first tick begins; a pin is configured as  *)
(* OUTPUT before any duty-cycle write to it; and all four outputs are 0    *)
(* when the first step of the table is about to be applied.                *)
C24_StartupOrdering ==
  /\ [](/\ pc \in {"boot", "setup"}
             => (test = << >> /\ window = << >> /\ ticks = 0)
        /\ (pending # << >> /\ Head(pending).op = "analogWrite")
             => mode[Head(pending).pin] = "OUTPUT"
        /\ lastWrite # << >> => mode[lastWrite[1]] = "OUTPUT"
        /\ pc \notin {"boot", "setup"}
             => \A p \in Pins : mode[p] = "OUTPUT"
        /\ (pc = "loop" /\ test = << >>) => Outputs = <<0, 0, 0, 0>>)
  /\ [][ /\ pc' = "boot" => pc = "boot"
         /\ pc' = "setup" => pc \in {"boot", "setup"}
         /\ (pc = "boot" /\ pc' # "boot") => pc' = "setup"
         /\ (pc = "setup" /\ pc' # "setup")
              => (pc' = "loop" /\ pending = << >>)
         /\ (test = << >> /\ test' # << >>)
              => (pc = "loop" /\ test' = <<0>> /\ Outputs = <<0, 0, 0, 0>>)
       ]_vars

C24_Witness ==
  /\ pc = "runTest"
  /\ test = <<0>>
  /\ ticks = 0
  /\ before = [p \in Pins |-> 0]
  /\ \A p \in Pins : mode[p] = "OUTPUT"
  /\ lastWrite = <<FRONT_RIGHT_PIN, 0>>

(* C25 (SpecStmt): at every point while runTest(i) is executing, each      *)
(* channel's output is the value it held before the step began, 0, or the  *)
(* value row i assigns to it; a channel whose value in row i is 0 is never *)
(* written a non-zero value during step i.                                 *)
C25_IntermediateBounded ==
  /\ [](pc = "runTest" =>
          \A p \in Pins :
            out[p] \in {before[p], 0, StepTable[test[1] + 1][ChannelOf(p)]})
  /\ [][ (pc = "runTest" /\ pending # << >>
          /\ StepTable[test[1] + 1][ChannelOf(Head(pending).pin)] = 0)
           => (lastWrite'[2] = 0 /\ out'[lastWrite'[1]] = 0
               /\ lastWrite'[1] = Head(pending).pin)
       ]_vars

C25_Witness ==
  /\ pc = "runTest"
  /\ test = <<5>>
  /\ before[BACK_LEFT_PIN] = 180
  /\ Len(pending) = 3
  /\ Outputs = <<0, 0, 0, 180>>

(* C26 (SpecStmt): observed after every statement, currentTest is within   *)
(* 0..12; it equals 12 (TOTAL_TESTS) only between the increment and the    *)
(* wrap check of loop(); runTest is only called with an argument within    *)
(* 0..11; and the increment never overflows the 16-bit int.                *)
C26_IndexAtStatements ==
  /\ currentTest \in 0 .. 12
  /\ currentTest = TOTAL_TESTS => pc = "wrap"
  /\ pc # "wrap" => currentTest \in ValidIndex
  /\ test # << >> => test[1] \in ValidIndex
  /\ pc = "inc" =>
       /\ currentTest < 2^(INT_BITS - 1) - 1
       /\ Increment(currentTest) = currentTest + 1

C26_Witness ==
  /\ pc = "wrap"
  /\ currentTest = 12
  /\ test = <<11>>
  /\ Outputs = <<255, 255, 255, 255>>

(* C27 (SpecApply): runTest(test) called with an index outside 0..11,      *)
(* negative or 12 and above, performs no write: the four outputs, the pin  *)
(* modes and the step index are left exactly as they were.                 *)
C27_OutOfRangeNoWrite ==
  /\ []((pc = "apply" /\ test[1] \notin ValidIndex)
          => (out = before /\ lastWrite = << >>))
  /\ [][ (pc = "apply" /\ pc' = "apply" /\ test[1] \notin ValidIndex)
           => /\ out' = out
              /\ mode' = mode
              /\ lastWrite' = lastWrite
              /\ currentTest' = currentTest
       ]_vars

C27_Witness ==
  /\ pc = "apply"
  /\ calls = 2
  /\ test = <<12>>
  /\ currentTest = 11
  /\ lastWrite = << >>
  /\ out = [p \in Pins |-> SPEED_HIGH]

(* C28 (SpecStmt): the specified sequencer (tick = apply the step and      *)
(* advance the index, then suspend) runs beside the sketch (apply the      *)
(* step, delay, then advance), its tick taken when runTest returns.  Both  *)
(* leave the same outputs after every step and make the same delay after   *)
(* it; the two indices are equal whenever a step is applied, and during    *)
(* each delay the sketch's index is one behind (mod 12).                   *)
C28_LoopRefinesTick ==
  /\ [](/\ specIndex \in ValidIndex
        /\ pc \in {"loop", "runTest"} => currentTest = specIndex
        /\ pc = "runTest" => test = <<specIndex>>
        /\ pc = "delay" =>
             /\ currentTest = (specIndex + TOTAL_TESTS - 1) % TOTAL_TESTS
             /\ specIndex = (currentTest + 1) % TOTAL_TESTS
             /\ waited = 0
        /\ pc \in {"loop", "delay", "inc", "wrap"} => Outputs = specOut
        /\ (pc = "loop" /\ test # << >>) => waited = TEST_INTERVAL)
  /\ [][ /\ specIndex' # specIndex =>
              /\ pc = "runTest" /\ pc' = "delay"
              /\ specIndex' = (specIndex + 1) % TOTAL_TESTS
              /\ specOut' = StepTable[specIndex + 1]
              /\ Outputs' = specOut'
         /\ pc = "delay" =>
              /\ waited' = waited + TEST_INTERVAL
              /\ out' = out
              /\ UNCHANGED <<specIndex, specOut, currentTest>>
         /\ pc \in {"inc", "wrap"} => UNCHANGED <<specIndex, specOut, out>>
       ]_vars

C28_Witness ==
  /\ pc = "delay"
  /\ specIndex = 0
  /\ currentTest = 11
  /\ ticks >= TOTAL_TESTS
  /\ specOut = <<255, 255, 255, 255>>
  /\ Outputs = specOut

(* <target>/<skill> is there already and does not resolve to the skill's   *)
(* source directory                                                        *)
ExistsElsewhere(kind) == kind \in {"link_other", "broken", "dir", "file"}

(* C29, as stated (SpecSkills): whenever the pair being processed finds    *)
(* <target>/<skill> already there and not resolving to the skill's source  *)
(* directory, the entry is left untouched, warnings grows by one, no link  *)
(* is created for the pair, and processing goes on with the next target.   *)
C29_AsStated ==
  [][ (/\ status = "running"
       /\ cursor <= Len(Pairs)
       /\ hasMd[Pairs[cursor].skill]
       /\ ExistsElsewhere(entry[<<Pairs[cursor].target, Pairs[cursor].skill>>]))
        => /\ entry' = entry
           /\ warnings' = warnings + 1
           /\ created' = created
           /\ linked' = linked
           /\ cursor' = cursor + 1
           /\ status' = "running"
    ]_vars

(* the steps of the right-motors sketch, rows 0..5, channels FR BR *)
RightTable ==
  << <<0, 0>>, <<100, 0>>, <<0, 100>>, <<100, 100>>, <<180, 180>>,
     <<255, 255>> >>

RightOutputs == <<out[FRONT_RIGHT_PIN], out[BACK_RIGHT_PIN]>>

(* C30 (SpecRight): one iteration of loop() of the right-motors sketch     *)
(* started with the index equal to i, i in 0..5, leaves the outputs of     *)
(* pins 9 and 10 equal to row i of the table and the index equal to        *)
(* (i + 1) mod 6; runTest(i) yields row i from every prior value of the    *)
(* two outputs; the index is within 0..5 whenever a step is applied, and   *)
(* 6 iterations bring it back to its starting value.                       *)
C30_RightMotors ==
  /\ [](/\ currentTest \in 0 .. 5
        /\ (pc = "loop" /\ test # << >>)
             => (test[1] \in 0 .. 5 /\ RightOutputs = RightTable[test[1] + 1])
        /\ \A i \in 0 .. 5 : \A prior \in [Pins -> Duty] :
             LET s == Run([out |-> prior, mode |-> mode, lastWrite |-> << >>],
                          rightRunTest(i))
             IN  /\ <<s.out[FRONT_RIGHT_PIN], s.out[BACK_RIGHT_PIN]>>
                      = RightTable[i + 1]
                 /\ s.out[FRONT_LEFT_PIN] = prior[FRONT_LEFT_PIN]
                 /\ s.out[BACK_LEFT_PIN] = prior[BACK_LEFT_PIN]
        /\ Len(window) > 6 =>
             /\ window[Len(window)] = window[Len(window) - 6]
             /\ \A k \in 1 .. 5 :
                  window[Len(window) - k] # window[Len(window)])
  /\ [][ pc = "loop" =>
           /\ RightOutputs' = RightTable[currentTest + 1]
           /\ test' = <<currentTest>>
           /\ currentTest' = (currentTest + 1) % 6
           /\ waited' = 5000
       ]_vars

C30_Witness ==
  /\ pc = "loop"
  /\ test = <<5>>
  /\ currentTest = 0
  /\ ticks >= 6
  /\ RightOutputs = <<255, 255>>
  /\ Len(window) > 6

====
